---- MODULE Spec2Model ----
(***************************************************************************)
(* A model of makedict.py: read_json_file -> process_data -> write_to_csv. *)
(*                                                                         *)
(* Python values are tagged records [kind, val]:                           *)
(*   None  -> kind "null"      bool -> kind "bool", val TRUE/FALSE         *)
(*   int   -> kind "num"       str  -> kind "str", val a sequence of chars *)
(*   list  -> kind "arr", val the sequence of items                        *)
(*   dict  -> kind "obj", val the sequence of <<key, value>> pairs in      *)
(*            insertion order, key a sequence of chars                     *)
(* Strings are sequences of one-character strings, so that slicing and     *)
(* concatenation are computed as Python computes them.                     *)
(***************************************************************************)
EXTENDS Integers, Sequences, FiniteSets, TLC

VARIABLES
    file,              \* the input file: its lines, in order
    pc,                \* where main() is: "while", "try", "reading", "process", "write", "done"
    retries,           \* read_json_file: retries
    all_data,          \* read_json_file: all_data
    line_number,       \* read_json_file: lines of the file consumed by the current attempt
    data,              \* main: data, the value read_json_file returned
    attempts,          \* history: how many times the try block was entered
    waited,            \* history: seconds spent in time.sleep
    outcome,           \* history: how read_json_file returned: "none", "ok", "gaveup", "other", "fallthrough"
    entry,             \* process_data: how many entries of data the for loop has taken
    stack,             \* flatten_data: the pending calls, innermost first
    frequency_counts,  \* process_data: frequency_counts, in insertion order
    lastVisit,         \* history: the last leaf flatten_data counted
    opened,            \* write_to_csv: whether output_file was opened for writing
    csv,               \* write_to_csv: the rows handed to writer.writerow, in order
    log                \* the error messages of write_to_csv that were logged

vars == <<file, pc, retries, all_data, line_number, data, attempts, waited, outcome,
          entry, stack, frequency_counts, lastVisit, opened, csv, log>>

readerVars == <<retries, all_data, line_number, attempts, waited, outcome>>
processVars == <<entry, stack, frequency_counts, lastVisit>>
writerVars == <<opened, csv, log>>

----------------------------------------------------------------------------
(* Bounds *)

MaxLines == 2

MaxEntries == 2

----------------------------------------------------------------------------
(* Python values *)

None == [kind |-> "null", val |-> 0]
Num(n) == [kind |-> "num", val |-> n]
Bool(b) == [kind |-> "bool", val |-> b]
Str(s) == [kind |-> "str", val |-> s]
Arr(items) == [kind |-> "arr", val |-> items]
Obj(pairs) == [kind |-> "obj", val |-> pairs]

kA == <<"a">>
kB == <<"b">>
kC == <<"c">>
kD == <<"d">>
kADot == <<"a", ".">>
kADotB == <<"a", ".", "b">>
kEmpty == <<>>

\* {"a":{"b":1}}
NestedAB == Obj(<< <<kA, Obj(<< <<kB, Num(1)>> >>)>> >>)

\* [{"a":{"b":1}}, null, [true, null]]
LineArray ==
    Arr(<< NestedAB,
           None,
           Arr(<<Bool(TRUE), None>>) >>)

\* {"a":{"b":1,"c":["1","1","x"]}}
LineUser ==
    Obj(<< <<kA, Obj(<< <<kB, Num(1)>>,
                        <<kC, Arr(<<Str(<<"1">>), Str(<<"1">>), Str(<<"x">>)>>)>> >>)>> >>)

\* {"a.b": true, "a": ["1", false, 0, 1]}
LineMixed ==
    Obj(<< <<kADotB, Bool(TRUE)>>,
           <<kA, Arr(<<Str(<<"1">>), Bool(FALSE), Num(0), Num(1)>>)>> >>)

\* {"a.": 0, "": "x", "a": {"": 1}}
LineDots ==
    Obj(<< <<kADot, Num(0)>>,
           <<kEmpty, Str(<<"x">>)>>,
           <<kA, Obj(<< <<kEmpty, Num(1)>> >>)>> >>)

\* {"a": null, "b": [], "c": {}, "d": [null, {}]}
LineNulls ==
    Obj(<< <<kA, None>>,
           <<kB, Arr(<<>>)>>,
           <<kC, Obj(<<>>)>>,
           <<kD, Arr(<<None, Obj(<<>>)>>)>> >>)

\* 1
LineScalar == Num(1)

JsonLines == {LineArray, LineUser, LineMixed, LineDots, LineNulls, LineScalar}

\* A line of the file, by what line.strip() and json.loads make of it.
Blank == [text |-> "blank", json |-> None]
Malformed == [text |-> "malformed", json |-> None]
Json(v) == [text |-> "json", json |-> v]

Lines == {Blank, Malformed} \cup {Json(v) : v \in JsonLines}

RECURSIVE SeqsUpTo(_, _)
SeqsUpTo(S, n) ==
    IF n = 0 THEN {<<>>}
    ELSE LET shorter == SeqsUpTo(S, n - 1)
         IN  shorter \cup {Append(s, x) : s \in {t \in shorter : Len(t) = n - 1}, x \in S}

Files == SeqsUpTo(Lines, MaxLines)

----------------------------------------------------------------------------
(* read_json_file *)

max_retries == 3

SleepSeconds == 2

\* lines 28-37: what one line adds to all_data
LineRecords(line) ==
    IF line.text # "json" THEN <<>>
    ELSE IF line.json.kind = "arr" THEN line.json.val
    ELSE <<line.json>>

\* line 42 with <= for <
RetryWrong(r) == r <= max_retries

\* line 42: whether a permission error is followed by a wait and another attempt
ShouldRetry(r) == r < max_retries

\* lines 47, 50, 53: read_json_file returns, and main goes on to process_data
Return(value, how) ==
    /\ data' = value
    /\ outcome' = how
    /\ pc' = "process"

\* line 23: the while test
WhileTest ==
    /\ pc = "while"
    /\ IF retries < max_retries
       THEN /\ pc' = "try"
            /\ attempts' = attempts + 1
            /\ UNCHANGED <<data, outcome>>
       ELSE /\ Return(all_data, "fallthrough")
            /\ UNCHANGED attempts
    /\ UNCHANGED <<file, retries, all_data, line_number, waited, processVars, writerVars>>

\* line 26: open succeeds
OpenFile ==
    /\ pc = "try"
    /\ pc' = "reading"
    /\ line_number' = 0
    /\ UNCHANGED <<file, retries, all_data, data, attempts, waited, outcome,
                   processVars, writerVars>>

\* lines 27-37: one iteration of the for loop over the file
ReadLine ==
    /\ pc = "reading"
    /\ line_number < Len(file)
    /\ line_number' = line_number + 1
    /\ all_data' = all_data \o LineRecords(file[line_number + 1])
    /\ UNCHANGED <<file, pc, retries, data, attempts, waited, outcome,
                   processVars, writerVars>>

\* lines 38, 52-53: the file is exhausted, break, return all_data
EndOfFile ==
    /\ pc = "reading"
    /\ line_number = Len(file)
    /\ Return(all_data, "ok")
    /\ UNCHANGED <<file, retries, all_data, line_number, attempts, waited,
                   processVars, writerVars>>

\* lines 39-47: open or a read raises PermissionError
PermissionError ==
    /\ pc \in {"try", "reading"}
    /\ retries' = retries + 1
    /\ IF ShouldRetry(retries')
       THEN /\ waited' = waited + SleepSeconds
            /\ pc' = "while"
            /\ UNCHANGED <<data, outcome>>
       ELSE /\ Return(<<>>, "gaveup")
            /\ UNCHANGED waited
    /\ UNCHANGED <<file, all_data, line_number, attempts, processVars, writerVars>>

\* lines 48-50: open or a read raises any other exception
OtherError ==
    /\ pc \in {"try", "reading"}
    /\ Return(<<>>, "other")
    /\ UNCHANGED <<file, retries, all_data, line_number, attempts, waited,
                   processVars, writerVars>>

ReaderNext ==
    \/ WhileTest
    \/ OpenFile
    \/ ReadLine
    \/ EndOfFile
    \/ PermissionError
    \/ OtherError

----------------------------------------------------------------------------
(* flatten_data and process_data *)

Last(s) == s[Len(s)]

\* line 65 with prefix for prefix[:-1]
KeyPathUnstripped(prefix) == prefix

\* line 65: prefix[:-1]
KeyPath(prefix) == SubSeq(prefix, 1, Len(prefix) - 1)

\* bool is a subclass of int: True is 1 and False is 0
PyInt(x) == IF x.kind = "bool" THEN (IF x.val THEN 1 ELSE 0) ELSE x.val

\* line 65: the == (and hash) by which a Counter finds the key data
PyEq(x, y) ==
    IF x.kind = "str" \/ y.kind = "str"
    THEN x.kind = y.kind /\ x.val = y.val
    ELSE x.kind \in {"num", "bool"} /\ y.kind \in {"num", "bool"} /\ PyInt(x) = PyInt(y)

\* the position of the first TRUE of a sequence of booleans, 0 when there is none
FirstIndex(hits) ==
    IF \E i \in 1..Len(hits) : hits[i]
    THEN CHOOSE i \in 1..Len(hits) : hits[i] /\ \A j \in 1..(i - 1) : ~hits[j]
    ELSE 0

\* line 65 with = 1 for += 1
CounterAssign(counter, value) ==
    LET Same(e) == PyEq(e.value, value)
        j == FirstIndex([k \in 1..Len(counter) |-> Same(counter[k])])
    IN  IF j = 0
        THEN Append(counter, [value |-> value, count |-> 1])
        ELSE [counter EXCEPT ![j].count = 1]

\* line 65: counter[value] += 1 on a Counter (a dict, in insertion order)
CounterAdd(counter, value) ==
    LET Same(e) == PyEq(e.value, value)
        j == FirstIndex([k \in 1..Len(counter) |-> Same(counter[k])])
    IN  IF j = 0
        THEN Append(counter, [value |-> value, count |-> 1])
        ELSE [counter EXCEPT ![j].count = @ + 1]

\* line 65: frequency_counts[key][value] += 1 on a defaultdict(Counter)
Increment(fc, key, value) ==
    LET Same(e) == e.key = key
        i == FirstIndex([k \in 1..Len(fc) |-> Same(fc[k])])
    IN  IF i = 0
        THEN Append(fc, [key |-> key, counter |-> CounterAdd(<<>>, value)])
        ELSE [fc EXCEPT ![i].counter = CounterAdd(@, value)]

\* line 64 without the test
IsCountedAlways(value) == TRUE

\* line 64: data is not None
IsCounted(value) == value.kind # "null"

\* A call flatten_data(data, prefix, frequency_counts); keys is history: the
\* object keys of the calls this one is nested in, outermost first.
Call(value, prefix, keys) == [data |-> value, prefix |-> prefix, keys |-> keys]

\* lines 58-59: the calls a dict makes, in the order of data.items()
DictCalls(call) ==
    [i \in 1..Len(call.data.val) |->
        Call(call.data.val[i][2],
             call.prefix \o call.data.val[i][1] \o <<".">>,
             Append(call.keys, call.data.val[i][1]))]

\* lines 61-62 with a path segment for the list
ListCallsIndexed(call) ==
    [i \in 1..Len(call.data.val) |->
        Call(call.data.val[i], call.prefix \o <<"0">> \o <<".">>, call.keys)]

\* lines 61-62: the calls a list makes, in the order of its items
ListCalls(call) ==
    [i \in 1..Len(call.data.val) |->
        Call(call.data.val[i], call.prefix, call.keys)]

\* lines 63-65: a scalar or None
Leaf(call, fc) ==
    IF IsCounted(call.data)
    THEN Increment(fc, KeyPath(call.prefix), call.data)
    ELSE fc

\* lines 55-65: the pending calls run to completion
RECURSIVE RunCalls(_, _)
RunCalls(calls, fc) ==
    IF calls = <<>> THEN fc
    ELSE LET call == Head(calls)
         IN  IF call.data.kind = "obj" THEN RunCalls(DictCalls(call) \o Tail(calls), fc)
             ELSE IF call.data.kind = "arr" THEN RunCalls(ListCalls(call) \o Tail(calls), fc)
             ELSE RunCalls(Tail(calls), Leaf(call, fc))

\* lines 55-65: the table flatten_data(data, prefix, frequency_counts) leaves
flatten_data(value, prefix, fc) == RunCalls(<<Call(value, prefix, <<>>)>>, fc)

\* lines 72-73: the for loop takes the next entry and calls flatten_data(entry, '', ...)
NextEntry ==
    /\ pc = "process"
    /\ stack = <<>>
    /\ entry < Len(data)
    /\ entry' = entry + 1
    /\ stack' = <<Call(data[entry + 1], <<>>, <<>>)>>
    /\ UNCHANGED <<file, pc, data, readerVars, frequency_counts, lastVisit, writerVars>>

\* lines 57-59
VisitDict ==
    /\ pc = "process"
    /\ stack # <<>>
    /\ Head(stack).data.kind = "obj"
    /\ stack' = DictCalls(Head(stack)) \o Tail(stack)
    /\ UNCHANGED <<file, pc, data, readerVars, entry, frequency_counts, lastVisit, writerVars>>

\* lines 60-62
VisitList ==
    /\ pc = "process"
    /\ stack # <<>>
    /\ Head(stack).data.kind = "arr"
    /\ stack' = ListCalls(Head(stack)) \o Tail(stack)
    /\ UNCHANGED <<file, pc, data, readerVars, entry, frequency_counts, lastVisit, writerVars>>

\* lines 63-65
VisitLeaf ==
    /\ pc = "process"
    /\ stack # <<>>
    /\ Head(stack).data.kind \notin {"obj", "arr"}
    /\ frequency_counts' = Leaf(Head(stack), frequency_counts)
    /\ lastVisit' = IF IsCounted(Head(stack).data)
                    THEN <<[keys |-> Head(stack).keys,
                            key |-> KeyPath(Head(stack).prefix),
                            value |-> Head(stack).data]>>
                    ELSE lastVisit
    /\ stack' = Tail(stack)
    /\ UNCHANGED <<file, pc, data, readerVars, entry, writerVars>>

\* lines 75-79: every entry is flattened; process_data returns the table
FinishProcess ==
    /\ pc = "process"
    /\ stack = <<>>
    /\ entry = Len(data)
    /\ pc' = "write"
    /\ UNCHANGED <<file, data, readerVars, processVars, writerVars>>

ProcessNext ==
    \/ NextEntry
    \/ VisitDict
    \/ VisitList
    \/ VisitLeaf
    \/ FinishProcess

----------------------------------------------------------------------------
(* write_to_csv *)

SuffixValue == <<" ", "[", "V", "a", "l", "u", "e", "]">>
SuffixInstances == <<" ", "[", "I", "n", "s", "t", "a", "n", "c", "e", "s", "]">>

\* line 85 without the test
TableIsEmptyNever(fc) == FALSE

\* line 85: not frequency_counts
TableIsEmpty(fc) == Len(fc) = 0

\* lines 92-95
Headers(fc) ==
    [c \in 1..(2 * Len(fc)) |->
        IF c % 2 = 1
        THEN Str(fc[(c + 1) \div 2].key \o SuffixValue)
        ELSE Str(fc[c \div 2].key \o SuffixInstances)]

\* a sort that puts an item in front of the items of equal count
InsertBeforeTies(sorted, item) ==
    LET Smaller(e) == e.count <= item.count
        p == FirstIndex([k \in 1..Len(sorted) |-> Smaller(sorted[k])])
    IN  IF p = 0 THEN Append(sorted, item)
        ELSE SubSeq(sorted, 1, p - 1) \o <<item>> \o SubSeq(sorted, p, Len(sorted))

\* sorted(..., reverse=True) is stable: an item goes behind every item whose count
\* is not smaller
InsertByCount(sorted, item) ==
    LET Smaller(e) == e.count < item.count
        p == FirstIndex([k \in 1..Len(sorted) |-> Smaller(sorted[k])])
    IN  IF p = 0 THEN Append(sorted, item)
        ELSE SubSeq(sorted, 1, p - 1) \o <<item>> \o SubSeq(sorted, p, Len(sorted))

\* line 105: sorted(counter.items(), key=lambda x: x[1], reverse=True)
RECURSIVE SortedItems(_)
SortedItems(counter) ==
    IF counter = <<>> THEN <<>>
    ELSE InsertByCount(SortedItems(SubSeq(counter, 1, Len(counter) - 1)), Last(counter))

\* lines 103-107
DataRows(fc) == [f \in 1..Len(fc) |-> SortedItems(fc[f].counter)]

SeqMax(s) == IF s = <<>> THEN 0 ELSE CHOOSE m \in {s[i] : i \in 1..Len(s)} : \A i \in 1..Len(s) : s[i] <= m

SeqMin(s) == IF s = <<>> THEN 0 ELSE CHOOSE m \in {s[i] : i \in 1..Len(s)} : \A i \in 1..Len(s) : m <= s[i]

\* line 109 with min for max
MinLength(fc) == SeqMin([f \in 1..Len(fc) |-> Len(DataRows(fc)[f])])

\* line 109
MaxLength(fc) == SeqMax([f \in 1..Len(fc) |-> Len(DataRows(fc)[f])])

\* lines 114-121: row i, with ('', '') where a field has no i-th pair
Row(fc, i) ==
    [c \in 1..(2 * Len(fc)) |->
        LET f == (c + 1) \div 2
            items == DataRows(fc)[f]
        IN  IF i <= Len(items)
            THEN (IF c % 2 = 1 THEN items[i].value ELSE Num(items[i].count))
            ELSE Str(<<>>)]

NoDataToWrite == "No data to write to the CSV."
NoHeaders == "No headers found to write to the CSV file."
NoDataFound == "No data found to write to the CSV."

\* lines 81-126
WriteCsv ==
    /\ pc = "write"
    /\ pc' = "done"
    /\ IF TableIsEmpty(frequency_counts)
       THEN /\ log' = log \cup {NoDataToWrite}
            /\ UNCHANGED <<opened, csv>>
       ELSE /\ opened' = TRUE
            /\ csv' = (IF Headers(frequency_counts) # <<>>
                       THEN <<Headers(frequency_counts)>> ELSE <<>>)
                      \o [i \in 1..MaxLength(frequency_counts) |-> Row(frequency_counts, i)]
            /\ log' = log \cup (IF Headers(frequency_counts) # <<>> THEN {} ELSE {NoHeaders})
                          \cup (IF MaxLength(frequency_counts) = 0 THEN {NoDataFound} ELSE {})
    /\ UNCHANGED <<file, data, readerVars, processVars>>

Next ==
    \/ ReaderNext
    \/ ProcessNext
    \/ WriteCsv

----------------------------------------------------------------------------

Init ==
    /\ file \in Files
    /\ pc = "while"
    /\ retries = 0
    /\ all_data = <<>>
    /\ line_number = 0
    /\ data = <<>>
    /\ attempts = 0
    /\ waited = 0
    /\ outcome = "none"
    /\ entry = 0
    /\ stack = <<>>
    /\ frequency_counts = <<>>
    /\ lastVisit = <<>>
    /\ opened = FALSE
    /\ csv = <<>>
    /\ log = {}

Spec == Init /\ [][Next]_vars

\* read_json_file alone; each of its steps is a step of one sequential program
ReadSpec == Init /\ [][ReaderNext]_vars /\ WF_vars(ReaderNext)

\* The records process_data is given, up to MaxEntries of them.
Entries ==
    {NestedAB, LineUser, LineMixed, LineDots, LineNulls, LineScalar, None,
     Arr(<<Bool(TRUE), None>>)}

\* The state in which read_json_file has returned the entries of a file that
\* holds them as one JSON array on one line.
ProcessInit ==
    /\ data \in SeqsUpTo(Entries, MaxEntries)
    /\ file = <<Json(Arr(data))>>
    /\ pc = "process"
    /\ retries = 0
    /\ all_data = data
    /\ line_number = 1
    /\ attempts = 1
    /\ waited = 0
    /\ outcome = "ok"
    /\ entry = 0
    /\ stack = <<>>
    /\ frequency_counts = <<>>
    /\ lastVisit = <<>>
    /\ opened = FALSE
    /\ csv = <<>>
    /\ log = {}

ProcessSpec == ProcessInit /\ [][ProcessNext \/ WriteCsv]_vars

----------------------------------------------------------------------------
(* What the records hold, read off their structure *)

\* the object keys joined by '.'
RECURSIVE Join(_)
Join(keys) ==
    IF keys = <<>> THEN <<>>
    ELSE IF Len(keys) = 1 THEN keys[1]
    ELSE keys[1] \o <<".">> \o Join(Tail(keys))

\* the non-null scalar leaves of a value, in document order, each with the object
\* keys above it
RECURSIVE Leaves(_, _)
RECURSIVE LeavesOfPairs(_, _)
RECURSIVE LeavesOfItems(_, _)
Leaves(value, keys) ==
    IF value.kind = "obj" THEN LeavesOfPairs(value.val, keys)
    ELSE IF value.kind = "arr" THEN LeavesOfItems(value.val, keys)
    ELSE IF value.kind = "null" THEN <<>>
    ELSE <<[keys |-> keys, value |-> value]>>
LeavesOfPairs(pairs, keys) ==
    IF pairs = <<>> THEN <<>>
    ELSE Leaves(pairs[1][2], Append(keys, pairs[1][1])) \o LeavesOfPairs(Tail(pairs), keys)
LeavesOfItems(items, keys) ==
    IF items = <<>> THEN <<>>
    ELSE Leaves(items[1], keys) \o LeavesOfItems(Tail(items), keys)

RECURSIVE LeavesOfCalls(_)
LeavesOfCalls(calls) ==
    IF calls = <<>> THEN <<>>
    ELSE Leaves(calls[1].data, calls[1].keys) \o LeavesOfCalls(Tail(calls))

\* the leaves of the entries process_data has taken, and of those still to visit
TakenLeaves == LeavesOfItems(SubSeq(data, 1, entry), <<>>)
PendingLeaves == LeavesOfCalls(stack)

LeavesAt(leaves, key) == Cardinality({i \in 1..Len(leaves) : Join(leaves[i].keys) = key})

LeavesOf(leaves, key, value) ==
    Cardinality({i \in 1..Len(leaves) : Join(leaves[i].keys) = key /\ leaves[i].value = value})

RECURSIVE Total(_)
Total(counter) ==
    IF counter = <<>> THEN 0 ELSE counter[1].count + Total(Tail(counter))

RECURSIVE TotalAll(_)
TotalAll(fc) ==
    IF fc = <<>> THEN 0 ELSE Total(fc[1].counter) + TotalAll(Tail(fc))

HistTotal(fc, key) ==
    LET Same(e) == e.key = key
        i == FirstIndex([k \in 1..Len(fc) |-> Same(fc[k])])
    IN  IF i = 0 THEN 0 ELSE Total(fc[i].counter)

TableKeys(fc) == {fc[i].key : i \in 1..Len(fc)}

ProcessDone == pc \in {"write", "done"}

----------------------------------------------------------------------------
(* C1 *)

C1Conservation ==
    \A key \in TableKeys(frequency_counts) \cup {Join(l.keys) : l \in {TakenLeaves[i] : i \in 1..Len(TakenLeaves)}} :
        HistTotal(frequency_counts, key) + LeavesAt(PendingLeaves, key) = LeavesAt(TakenLeaves, key)

\* g is f with exactly one count raised by exactly 1 and nothing lowered or removed
RaisedOne(f, g) ==
    /\ Len(g) >= Len(f)
    /\ \A i \in 1..Len(f) :
        /\ g[i].key = f[i].key
        /\ Len(g[i].counter) >= Len(f[i].counter)
        /\ \A j \in 1..Len(f[i].counter) :
            /\ g[i].counter[j].value = f[i].counter[j].value
            /\ g[i].counter[j].count >= f[i].counter[j].count
    /\ \A i \in 1..Len(g) : \A j \in 1..Len(g[i].counter) : g[i].counter[j].count >= 1
    /\ TotalAll(g) = TotalAll(f) + 1

C1Step ==
    IF /\ pc = "process"
       /\ stack # <<>>
       /\ Head(stack).data.kind \in {"str", "num", "bool"}
       /\ stack' = Tail(stack)
    THEN RaisedOne(frequency_counts, frequency_counts')
    ELSE frequency_counts' = frequency_counts

\* C1: in every state, for every KeyPath, the counts of its histogram sum to the
\* number of non-null scalar leaves at that KeyPath in the records taken so far,
\* less those flatten_data has still to visit (none once process_data is done);
\* and a step changes the table only when flatten_data visits a non-null scalar
\* leaf, and then raises exactly one count by exactly 1 and lowers or removes none.
C1ConservationLaw == [](C1Conservation) /\ [][C1Step]_vars

C1Witness ==
    /\ ProcessDone
    /\ data = <<LineUser, LineMixed>>
    /\ HistTotal(frequency_counts, kADotB) = 2
    /\ HistTotal(frequency_counts, kA) = 4
    /\ \E i \in 1..Len(frequency_counts) : Len(frequency_counts[i].counter) >= 2

----------------------------------------------------------------------------
(* C2 *)

\* C2: once the taken records are flattened, every histogram entry counts exactly
\* the leaves at its KeyPath that have its own JSON kind and value, so that leaves
\* of different kinds are never counted under one entry.
C2DistinctKinds ==
    stack = <<>> =>
        \A i \in 1..Len(frequency_counts) :
            \A j \in 1..Len(frequency_counts[i].counter) :
                frequency_counts[i].counter[j].count =
                    LeavesOf(TakenLeaves, frequency_counts[i].key,
                             frequency_counts[i].counter[j].value)

----------------------------------------------------------------------------
(* C3 *)

\* C3: in every state, every histogram of the table is non-empty, every count is
\* at least 1, no histogram holds null, and every KeyPath of the table is one at
\* which flatten_data has visited at least one non-null scalar leaf.
C3NoNulls ==
    \A i \in 1..Len(frequency_counts) :
        /\ Len(frequency_counts[i].counter) >= 1
        /\ \A j \in 1..Len(frequency_counts[i].counter) :
            /\ frequency_counts[i].counter[j].count >= 1
            /\ frequency_counts[i].counter[j].value.kind \in {"str", "num", "bool"}
        /\ LeavesAt(TakenLeaves, frequency_counts[i].key)
             - LeavesAt(PendingLeaves, frequency_counts[i].key) >= 1

C3Witness ==
    /\ ProcessDone
    /\ \E i \in 1..Len(data) : data[i] = LineNulls
    /\ frequency_counts # <<>>
    /\ TableKeys(frequency_counts) \cap {kA, kB, kC, kD} = {}

----------------------------------------------------------------------------
(* C4 *)

JsonSample ==
    JsonLines \cup {NestedAB, None, Bool(TRUE), Str(<<"1">>), Arr(<<>>), Obj(<<>>),
                    Arr(<<None, Num(0)>>)}

PairSample == {LineUser, LineMixed, None, Str(<<"1">>), Arr(<<Bool(TRUE), None>>)}

PrefixSample == {<<>>, <<"a", ".">>, <<"a", ".", "b", ".">>}

\* C4: from every table process_data reaches between two entries, for every value
\* v and every prefix p, flatten_data(v, p, table) and flatten_data([v], p, table)
\* leave the same table (same KeyPaths in the same order, same histograms in the
\* same order), and flatten_data([v, w], p, table) leaves the table that
\* flattening v and then w with prefix p leaves.
C4ArraysTransparent ==
    (pc = "process" /\ stack = <<>>) =>
        /\ \A v \in JsonSample : \A p \in PrefixSample :
            flatten_data(Arr(<<v>>), p, frequency_counts) = flatten_data(v, p, frequency_counts)
        /\ \A v \in PairSample : \A w \in PairSample : \A p \in PrefixSample :
            flatten_data(Arr(<<v, w>>), p, frequency_counts) =
                flatten_data(w, p, flatten_data(v, p, frequency_counts))

C4Witness ==
    /\ pc = "process"
    /\ stack = <<>>
    /\ entry = 2
    /\ data[1] = NestedAB
    /\ data[2] = LineUser
    /\ frequency_counts =
         <<[key |-> kADotB, counter |-> <<[value |-> Num(1), count |-> 2]>>],
           [key |-> <<"a", ".", "c">>,
            counter |-> <<[value |-> Str(<<"1">>), count |-> 2],
                          [value |-> Str(<<"x">>), count |-> 1]>>]>>
    /\ frequency_counts = flatten_data(Arr(<<NestedAB, LineUser>>), <<>>, <<>>)

----------------------------------------------------------------------------
(* C5 *)

EndsWithDot(s) == s # <<>> /\ Last(s) = "."

\* C5 as claimed: the KeyPath of every counted leaf is its ancestor object keys
\* joined by '.', and no KeyPath has a trailing '.'.
C5NoTrailingSeparator ==
    /\ lastVisit # <<>> => lastVisit[1].key = Join(lastVisit[1].keys)
    /\ \A key \in TableKeys(frequency_counts) : ~EndsWithDot(key)

\* C5 as amended: the KeyPath of every counted leaf is in the table and is its
\* ancestor object keys joined by '.' (the empty string when it has none); it ends
\* with '.' exactly when the last of those keys ends with '.', or is empty and is
\* not the only one.
C5JoinedKeys ==
    lastVisit # <<>> =>
        LET keys == lastVisit[1].keys
            key == lastVisit[1].key
        IN  /\ key = Join(keys)
            /\ key \in TableKeys(frequency_counts)
            /\ EndsWithDot(key) <=>
                 /\ keys # <<>>
                 /\ \/ EndsWithDot(Last(keys))
                    \/ Last(keys) = <<>> /\ Len(keys) >= 2

C5Witness ==
    /\ lastVisit # <<>>
    /\ lastVisit[1].keys = <<kA, kEmpty>>
    /\ lastVisit[1].key = <<"a", ".">>
    /\ \E i \in 1..Len(frequency_counts) :
        frequency_counts[i].key = <<"a", ".">> /\ Total(frequency_counts[i].counter) >= 2

----------------------------------------------------------------------------
(* C6 *)

Written == pc = "done" /\ opened

DistinctValues(fc) == {Len(fc[f].counter) : f \in 1..Len(fc)}

\* C6: when write_to_csv has written a table of n KeyPaths, the first row is the
\* header of 2n cells, '<KeyPath> [Value]' and '<KeyPath> [Instances]' per KeyPath
\* in table order; then come exactly maxLength rows, maxLength the greatest number
\* of distinct values of a KeyPath; each has 2n cells, and row i holds per KeyPath
\* the i-th (value, count) pair of its sorted list, or two empty cells if it has none.
C6PivotShape ==
    Written =>
        LET fc == frequency_counts
            n == Len(fc)
            maxLength == CHOOSE m \in DistinctValues(fc) : \A k \in DistinctValues(fc) : k <= m
        IN  /\ n >= 1
            /\ Len(csv) = 1 + maxLength
            /\ Len(csv[1]) = 2 * n
            /\ \A f \in 1..n :
                /\ csv[1][2 * f - 1] = Str(fc[f].key \o SuffixValue)
                /\ csv[1][2 * f] = Str(fc[f].key \o SuffixInstances)
            /\ \A i \in 1..maxLength :
                /\ Len(csv[1 + i]) = 2 * n
                /\ \A f \in 1..n :
                    IF i <= Len(fc[f].counter)
                    THEN /\ csv[1 + i][2 * f - 1] = SortedItems(fc[f].counter)[i].value
                         /\ csv[1 + i][2 * f] = Num(SortedItems(fc[f].counter)[i].count)
                    ELSE /\ csv[1 + i][2 * f - 1] = Str(<<>>)
                         /\ csv[1 + i][2 * f] = Str(<<>>)

C6Witness ==
    /\ Written
    /\ Len(frequency_counts) >= 3
    /\ Len(csv) >= 4
    /\ \E f \in 1..Len(frequency_counts) : Len(frequency_counts[f].counter) = 1
    /\ \E f \in 1..Len(frequency_counts) : csv[3][2 * f] = Str(<<>>)

----------------------------------------------------------------------------
(* C7 *)

AllLeaves == LeavesOfItems(data, <<>>)

\* where in the aggregation a value was first met at a KeyPath (0: never)
FirstSeen(key, value) ==
    LET Met(l) == Join(l.keys) = key /\ l.value = value
    IN  FirstIndex([k \in 1..Len(AllLeaves) |-> Met(AllLeaves[k])])

\* C7: in the written CSV, down every KeyPath's column pair the counts are
\* non-increasing, and of two values with equal counts the one first met during
\* aggregation comes first.
C7PerKeyOrdering ==
    Written =>
        \A f \in 1..Len(frequency_counts) :
            \A i \in 1..Len(frequency_counts[f].counter) :
                \A j \in (i + 1)..Len(frequency_counts[f].counter) :
                    LET key == frequency_counts[f].key
                        vi == csv[1 + i][2 * f - 1]
                        vj == csv[1 + j][2 * f - 1]
                        ci == csv[1 + i][2 * f].val
                        cj == csv[1 + j][2 * f].val
                    IN  /\ ci >= cj
                        /\ FirstSeen(key, vi) >= 1
                        /\ FirstSeen(key, vj) >= 1
                        /\ ci = cj => FirstSeen(key, vi) < FirstSeen(key, vj)

C7Witness ==
    /\ Written
    /\ \E f \in 1..Len(frequency_counts) :
        /\ Len(frequency_counts[f].counter) >= 3
        /\ csv[2][2 * f].val > csv[3][2 * f].val
        /\ csv[3][2 * f].val = csv[4][2 * f].val
        /\ FirstSeen(frequency_counts[f].key, csv[2][2 * f - 1])
             > FirstSeen(frequency_counts[f].key, csv[3][2 * f - 1])

----------------------------------------------------------------------------
(* C8 *)

\* C8: the output file is opened only by a finished write_to_csv whose table has a
\* key, and then a header and at least one data row are written and neither the
\* no-headers nor the no-data-found error is logged; once the pipeline is done, the
\* file was opened exactly when some non-null scalar leaf was aggregated, and
\* otherwise nothing was written and the no-data-to-write error was logged.
C8EmptyAggregation ==
    /\ opened =>
        /\ pc = "done"
        /\ frequency_counts # <<>>
        /\ Len(csv) >= 2
    /\ NoHeaders \notin log
    /\ NoDataFound \notin log
    /\ pc = "done" =>
        /\ opened <=> AllLeaves # <<>>
        /\ ~opened => csv = <<>> /\ NoDataToWrite \in log
        /\ opened => NoDataToWrite \notin log

C8Witness ==
    /\ pc = "done"
    /\ outcome = "ok"
    /\ \E i \in 1..Len(data) : data[i] = LineNulls
    /\ ~opened
    /\ NoDataToWrite \in log

----------------------------------------------------------------------------
(* C9 *)

ReadReturned == pc \notin {"while", "try", "reading"}

C9Policy ==
    /\ attempts <= 3
    /\ retries <= 3
    /\ outcome \in {"none", "ok", "gaveup", "other"}
    /\ outcome = "none" <=> ~ReadReturned
    /\ pc = "while" => attempts = retries /\ retries < 3 /\ waited = 2 * retries
    /\ pc \in {"try", "reading"} => attempts = retries + 1 /\ waited = 2 * retries
    /\ outcome = "gaveup" => retries = 3 /\ attempts = 3 /\ waited = 4 /\ data = <<>>
    /\ outcome = "other" => retries < 3 /\ attempts = retries + 1 /\ waited = 2 * retries /\ data = <<>>
    /\ outcome = "ok" => retries < 3 /\ attempts = retries + 1 /\ waited = 2 * retries

\* C9: read_json_file returns in every run; it makes at most 3 attempts; each
\* permission failure but the 3rd is followed by a 2-second wait and one more
\* attempt, and the 3rd by a return of zero records with no wait; any other error
\* returns zero records at once, with no wait and no further attempt; an attempt
\* that completes returns with no further attempt.
C9RetryPolicy == [](C9Policy) /\ <>(ReadReturned)

C9Witness ==
    /\ outcome = "gaveup"
    /\ attempts = 3
    /\ waited = 4
    /\ all_data # <<>>
    /\ data = <<>>

----------------------------------------------------------------------------
(* C10 *)

Contribution(line) ==
    IF line.text \in {"blank", "malformed"} THEN <<>>
    ELSE IF line.json.kind = "arr" THEN line.json.val
    ELSE <<line.json>>

RECURSIVE FileRecords(_)
FileRecords(lines) ==
    IF lines = <<>> THEN <<>> ELSE Contribution(lines[1]) \o FileRecords(Tail(lines))

\* C10: whenever read_json_file returns after an attempt that read the file to
\* the end, it returns the concatenation, in line order, of each line's records,
\* each once.
C10ExactRecords == outcome = "ok" => data = FileRecords(file)

====
